---- MODULE Spec2Model ----
(***************************************************************************)
(* The SantaGame component (app/components/santa-game.tsx): the autopilot  *)
(* motion loop, the compliance interrupt scheduler and the compliance      *)
(* session, as a state machine.                                            *)
(*                                                                         *)
(* React state is held in the variables named as in the component; every   *)
(* setState call is applied to them at once (updater functions are applied *)
(* in call order, so the queue's result is the same).  What a callback     *)
(* READS is not the state but what the last render and its effects         *)
(* published: the refs (santaRef, housesRef, targetRef, complianceRef,     *)
(* remainingRef), the compliance.active captured by the motion effect's    *)
(* closure (loopActive) and the props of the rendered modal (shown).       *)
(* Flush is that publication.  Callbacks that run outside a user event     *)
(* (animation frames, timers, the validation response) leave their updates *)
(* pending until a later Flush; a click is a discrete event, which React   *)
(* renders and whose effects it runs before the event returns, so a click  *)
(* action ends with the publication.                                       *)
(*                                                                         *)
(* Plane coordinates are fixed-point numbers, Scale units to one plane     *)
(* unit; elapsed times are in milliseconds.                                *)
(*                                                                         *)
(* The event list (logs) is written by the handlers and read by none of    *)
(* them; its entries are kept without their texts.  The 'Delivered at'     *)
(* entries are also counted per waypoint (arrivals).                       *)
(*                                                                         *)
(* Spec, FairSpec and LiveSpec are the component, with the waypoints laid  *)
(* out at HouseCoords.  GenSpec runs generateHouses itself, loop iteration *)
(* by loop iteration, with mulberry32 computed bit for bit (gen holds the  *)
(* call's locals).  ParserSpec applies the draft-sections effect, and so   *)
(* parseDraftContent, to a family of draft texts; a text is a sequence of  *)
(* tokens (words, marks, "SP", "LF", "CR").                                *)
(*                                                                         *)
(* sched is the scheduler effect's timer (how many timeouts are pending,   *)
(* the delay of the last one set, the effect's cancelled flag) and mounted *)
(* says whether the component is mounted; TeardownSpec adds the unmount.   *)
(* frame counts the motion loop's pending animation-frame callbacks.       *)
(* chat is what useChat holds besides the transcript: its status, the      *)
(* requests in flight, the chunks received, and the isSending of the last  *)
(* render; ChatSpec adds the sends and the streamed response.  LogSpec     *)
(* appends entries tagged with their writer to the event list.             *)
(*                                                                         *)
(* ServerSpec is the draft endpoint (app/api/compliance/draft/route.ts)    *)
(* with the client singleton of lib/dedalus.ts: server holds the process   *)
(* environment, the cached client and the events of the response.          *)
(***************************************************************************)
EXTENDS Integers, Sequences, FiniteSets, TLC

(* ------------------------------ bounds -------------------------------- *)
NumHouses == 2          \* waypoints generated (the component asks for 200)
NumAgencies == 2        \* size of the agency catalog (AGENCIES has 25)
MaxMessages == 3        \* transcript length at which no further validation or send is started
MaxCount == 2           \* largest count handed to generateHouses (GenSpec)
MaskSide == 2           \* width and height of the land mask, in pixels (GenSpec)
MaxLogEvents == 2       \* scheduler and session entries within the log window (LogSpec)
MaxChunks == 2          \* chunks of one streamed run (ServerSpec)
MaxSends == 1           \* user messages in the transcript at which no further one is sent
MaxPings == 1           \* heartbeat pings within one response (ServerSpec)

(* ------------------------- program constants -------------------------- *)
Scale == 10             \* fixed-point resolution of a coordinate: tenths
speedPerSecond == 22
arrivalRadius == 14     \* 1.4 plane units
MaxDeltaMs == 50        \* Math.min(..., 0.05) seconds
ClampMin == 10          \* clamp(..., 1, 99)
ClampMax == 990
LogWindow == 12         \* current.slice(-12)
AttemptsPerHouse == 80  \* maxAttempts = count * 80
AlphaThreshold == 10    \* alpha > 10
CoordUnit == 65536      \* fixed-point resolution of a generated coordinate
FirstDelay == 5000      \* window.setTimeout(triggerCompliance, 5000)
Interval == 20000       \* window.setTimeout(triggerCompliance, 20000)

\* mask === null
NoMask == [width |-> 0, height |-> 0, data |-> <<>>]

\* the land masks: every pixel transparent or opaque
Masks ==
    {NoMask} \cup
    { [width |-> MaskSide, height |-> MaskSide, data |-> d] :
        d \in [1..(MaskSide * MaskSide) -> {0, 255}] }

\* Elapsed time (timestamp - last) of the first frame after the motion effect
\* (re)starts: last is performance.now() taken in the effect, the timestamp is
\* the frame's start time, which may precede it (by a few milliseconds, or by
\* as long as the main thread was busy since the frame began).
FirstElapsed == {-400, -50, 50}
\* Elapsed time between two consecutive frames: a regular frame, a stall.
FrameElapsed == {50, 400}

\* Waypoint coordinates (longitude, latitude), each within the generator's
\* range [3, 97), standing for the output of generateHouses.
HouseCoords ==
    << [longitude |-> 480, latitude |-> 320],
       [longitude |-> 480, latitude |-> 350],
       [longitude |-> 480, latitude |-> 335] >>

Agencies == 1..NumAgencies

VARIABLES
    houses,             \* useState<House[]>: sequence of waypoints
    maskLoaded,         \* useState(false)
    santa,              \* useState<Position>
    targetId,           \* useState<string | null>: 0 is null, i is house-i
    compliance,         \* useState<ComplianceState>
    isValidating,       \* useState(false)
    draftSections,      \* useState<DraftSections>
    chatMessages,       \* useChat().messages
    chatChanged,        \* chatMessages was set since the last render
    santaRef, housesRef, targetRef, complianceRef, remainingRef,
    loopActive,         \* compliance.active as captured by the running step closure
    lastIsNow,          \* `last` holds performance.now() of the effect, not a frame time
    shown,              \* what the last render handed to ComplianceModal
    resetTimers,        \* pending setTimeout(..., 1600) callbacks of submitCase
    validations,        \* validation requests in flight
    logs,               \* useState<LogEntry[]>
    gen,                \* the call of generateHouses in progress: its arguments
                        \* and locals (GenSpec)
    sched,              \* the scheduler effect: its pending timers, the delay of
                        \* the one set last, its `cancelled` flag
    mounted,            \* the component is mounted (its effects not cleaned up)
    frame,              \* animation-frame callbacks of the motion loop that are
                        \* requested and neither run nor cancelled
    chat,               \* useChat(): status, drafting requests in flight, chunks
                        \* of the response applied, isSending as last rendered
    server,             \* the draft endpoint's process (ServerSpec)
    arrivals            \* per waypoint: 'Delivered at <label>' entries emitted
                        \* (0, 1, or 2 for two and more)

stateVars == <<houses, maskLoaded, santa, targetId, compliance,
               isValidating, draftSections, chatMessages, chatChanged>>
mirrorVars == <<santaRef, housesRef, targetRef, complianceRef, remainingRef,
                loopActive, lastIsNow, shown>>
mainVars == <<stateVars, mirrorVars, resetTimers, validations, arrivals, logs>>
compVars == <<mainVars, sched, mounted, chat, frame>>
vars == <<compVars, gen, server>>

(* ------------------------------ helpers ------------------------------- *)
Min(a, b) == IF a < b THEN a ELSE b
Abs(n) == IF n < 0 THEN -n ELSE n

\* n / d rounded to the nearest integer (d > 0), the fixed-point image of a
\* floating-point quotient.
RoundDiv(n, d) ==
    IF n >= 0 THEN (2 * n + d) \div (2 * d) ELSE -((2 * (-n) + d) \div (2 * d))

Max(a, b) == IF a > b THEN a ELSE b

\* Math.hypot(dx, dy), rounded down
Hypot(dx, dy) ==
    CHOOSE r \in Max(Abs(dx), Abs(dy))..(Abs(dx) + Abs(dy)) :
        r * r <= dx * dx + dy * dy /\ (r + 1) * (r + 1) > dx * dx + dy * dy

\* clamp that lets every value through
clampOff(value, min, max) == value

clamp(value, min, max) ==
    IF value < min THEN min ELSE IF value > max THEN max ELSE value

(* ------------------------ texts and the parser ------------------------- *)
\* A text is a sequence of characters.  The characters the parser tells apart
\* are kept, a word it treats as one run of letters is one character:
\*   "PART", "REFERENCE"     the words (in any case: the regexes have flag i)
\*   "I", "V", "X", "S"      the letters
\*   ":", "-", "*", "."      punctuation ("-" is any of the three dashes)
\*   "7"                     a digit
\*   "SP", "LF", "CR"        space, line feed, carriage return
\* and every other value is a letter or a word without meaning to the parser.
Space == {"SP", "LF", "CR"}

\* the names of the first agencies of the catalog
AgencyNames == <<"FAA", "EASA", "CAAC", "ICAO">>

\* A message text, by what it says: "incident" (the seeded message, naming the
\* agency), "validated" (the validation route's reply), "error" (the body of an
\* error response), "complete" ('Validation complete.', put for an empty body),
\* "failed" (the catch branch's text); "" is the empty text.
Text(kind, agency) ==
    IF kind = "" THEN <<>>
    ELSE IF agency = 0 THEN <<kind>>
    ELSE <<kind, "SP", AgencyNames[agency]>>

emptyDraft ==
    [issue |-> <<>>, facts |-> <<>>, analysis |-> <<>>, actions |-> <<>>,
     references |-> <<>>, raw |-> <<>>]

\* content.replace(/\r\n/g, "\n")
RECURSIVE ReplaceCRLF(_)
ReplaceCRLF(t) ==
    IF t = <<>> THEN <<>>
    ELSE IF Len(t) >= 2 /\ t[1] = "CR" /\ t[2] = "LF"
         THEN <<"LF">> \o ReplaceCRLF(SubSeq(t, 3, Len(t)))
         ELSE <<t[1]>> \o ReplaceCRLF(Tail(t))

\* String.prototype.trim
Trim(t) ==
    LET inked == {i \in 1..Len(t) : t[i] \notin Space}
    IN  IF inked = {} THEN <<>>
        ELSE SubSeq(t, CHOOSE i \in inked : \A j \in inked : i <= j,
                       CHOOSE i \in inked : \A j \in inked : i >= j)

\* \s* from position p: the first position at or after p that holds no space
SkipSpaces(t, p) ==
    CHOOSE q \in p..(Len(t) + 1) :
        /\ \A i \in p..(q - 1) : t[i] \in Space
        /\ q = Len(t) + 1 \/ t[q] \notin Space

\* PART\s+<label> at position p: the position after the label, 0 for no match
LabelAt(t, p, label) ==
    IF p > Len(t) \/ t[p] # "PART" THEN 0
    ELSE LET q == SkipSpaces(t, p + 1)
         IN  IF /\ q > p + 1
                /\ q + Len(label) - 1 <= Len(t)
                /\ SubSeq(t, q, q + Len(label) - 1) = label
             THEN q + Len(label)
             ELSE 0

\* \s*[-]?\s*:?\s* from position p (each part takes all it can)
AfterLabel(t, p) ==
    LET q1 == SkipSpaces(t, p)
        q2 == IF q1 <= Len(t) /\ t[q1] = "-" THEN q1 + 1 ELSE q1
        q3 == SkipSpaces(t, q2)
        q4 == IF q3 <= Len(t) /\ t[q3] = ":" THEN q3 + 1 ELSE q3
    IN  SkipSpaces(t, q4)

\* the lookahead (?=\nPART\s+[IVX]+...|\nREFERENCES|\nReferences|$) at position e
SectionEnd(t, e) ==
    \/ e = Len(t) + 1
    \/ /\ e + 1 <= Len(t)
       /\ t[e] = "LF"
       /\ \/ /\ t[e + 1] = "PART"
             /\ LET q == SkipSpaces(t, e + 2)
                IN  q > e + 2 /\ q <= Len(t) /\ t[q] \in {"I", "V", "X"}
          \/ /\ t[e + 1] = "REFERENCE"
             /\ e + 2 <= Len(t)
             /\ t[e + 2] = "S"

\* positions where the regex of getSection(label) matches
LabelMatches(t, label) == {p \in 1..Len(t) : LabelAt(t, p, label) # 0}

\* getSection: the first match's group, trimmed; "" without a match
getSection(t, label) ==
    LET ms == LabelMatches(t, label)
    IN  IF ms = {} THEN <<>>
        ELSE LET p == CHOOSE i \in ms : \A j \in ms : i <= j
                 from == AfterLabel(t, LabelAt(t, p, label))
                 to == CHOOSE e \in from..(Len(t) + 1) :
                           /\ SectionEnd(t, e)
                           /\ \A i \in from..(e - 1) : ~SectionEnd(t, i)
             IN  Trim(SubSeq(t, from, to - 1))

\* text.match(/REFERENCES?\s*[:\-]*\s*([\s\S]*)/i): the group, "" without a match
RECURSIVE SkipMarks(_, _)
SkipMarks(t, p) ==
    IF p <= Len(t) /\ t[p] \in {":", "-"} THEN SkipMarks(t, p + 1) ELSE p

refsBlock(t) ==
    LET ms == {p \in 1..Len(t) : t[p] = "REFERENCE"}
    IN  IF ms = {} THEN <<>>
        ELSE LET p == CHOOSE i \in ms : \A j \in ms : i <= j
                 q1 == IF p + 1 <= Len(t) /\ t[p + 1] = "S" THEN p + 2 ELSE p + 1
                 q2 == SkipMarks(t, SkipSpaces(t, q1))
             IN  SubSeq(t, SkipSpaces(t, q2), Len(t))

\* String.prototype.split("\n"): the lines of a text, one at least
RECURSIVE SplitLines(_)
SplitLines(t) ==
    LET breaks == {i \in 1..Len(t) : t[i] = "LF"}
    IN  IF breaks = {} THEN <<t>>
        ELSE LET b == CHOOSE i \in breaks : \A j \in breaks : i <= j
             IN  <<SubSeq(t, 1, b - 1)>> \o SplitLines(SubSeq(t, b + 1, Len(t)))

\* line.replace(/^[-*\d.\s]+/, "").trim()
StripBullet(line) ==
    LET bullet == {"-", "*", "7", "."} \cup Space
        q == CHOOSE i \in 1..(Len(line) + 1) :
                 /\ \A j \in 1..(i - 1) : line[j] \in bullet
                 /\ i = Len(line) + 1 \/ line[i] \notin bullet
    IN  Trim(SubSeq(line, q, Len(line)))

\* hasContent fixed to true
pickIssueNoFallback(sections, t) == sections.issue

\* hasContent ? sections.issue : text
pickIssue(sections, t) ==
    LET hasContent == \E f \in DOMAIN sections : Len(sections[f]) > 0
    IN  IF hasContent THEN sections.issue ELSE t

\* parseDraftContent after its first line: text is the normalised content
parseText(text) ==
    LET lines == SplitLines(refsBlock(text))
        references ==
            SelectSeq([i \in DOMAIN lines |-> StripBullet(lines[i])],
                      LAMBDA line : line # <<>>)
        sections == [issue |-> getSection(text, <<"I">>),
                     facts |-> getSection(text, <<"I", "I">>),
                     analysis |-> getSection(text, <<"I", "I", "I">>),
                     actions |-> getSection(text, <<"I", "V">>)]
    IN  [issue |-> pickIssue(sections, text),
         facts |-> sections.facts,
         analysis |-> sections.analysis,
         actions |-> sections.actions,
         references |-> references,
         raw |-> text]

\* (the set binds text to a value, computed once)
parseDraftContent(content) ==
    CHOOSE sections \in {parseText(text) : text \in {Trim(ReplaceCRLF(content))}} :
        TRUE

IdleCompliance == [active |-> FALSE, agency |-> 0, stage |-> "idle"]

\* the seeded message naming the first agency of the catalog, whatever was drawn
IncidentMessageFixed(agency) ==
    [role |-> "assistant", content |-> Text("incident", 1)]

IncidentMessage(agency) ==
    [role |-> "assistant", content |-> Text("incident", agency)]

generateHouses(count, mask) ==
    [i \in 1..count |->
        [id |-> i, latitude |-> HouseCoords[i].latitude,
         longitude |-> HouseCoords[i].longitude, delivered |-> FALSE]]

\* a log entry { id, text }, without its text
LogEntry == "entry"

\* current.slice(0, 12) in place of current.slice(-12)
AppendLogHead(current, entry) ==
    Append(SubSeq(current, 1, Min(Len(current), LogWindow)), entry)

\* [...current.slice(-12), entry]
AppendLog(current, entry) ==
    LET kept == IF Len(current) <= LogWindow THEN current
                ELSE SubSeq(current, Len(current) - LogWindow + 1, Len(current))
    IN  Append(kept, entry)

Undelivered(hs) == {i \in 1..Len(hs) : ~hs[i].delivered}

remainingDeliveries(hs) == Cardinality(Undelivered(hs))



(* ------------------------- the draft endpoint -------------------------- *)
\* The process serving /api/compliance/draft: the credential in its
\* environment and DEDALUS_ENV, lib/dedalus.ts's cachedClient (0: null, n: the
\* n-th client constructed) and the environment it was built for, the clients
\* constructed so far, and the request being served:
\* where POST stands, the client it obtained (0: getDedalusClient threw), the
\* response status, whether the heartbeat interval is set, and the events
\* written to the response body.
ServerIdle ==
    [apiKey |-> TRUE, env |-> "production", cachedClient |-> 0,
     environment |-> "none", built |-> 0,
     pc |-> "idle", client |-> 0, status |-> 0, heartbeat |-> FALSE, events |-> <<>>]

\* DEDALUS_ENV: what the process may find in its environment
EnvValues == {"development", "production", "staging"}

\* env: DEDALUS_ENV when it is development or production, else production
ClientEnvironment(srv) ==
    IF srv.env \in {"development", "production"} THEN srv.env ELSE "production"

\* getDedalusClient building a client on every call
getDedalusClientUncached(srv) ==
    IF ~srv.apiKey THEN [srv EXCEPT !.client = 0]
    ELSE [srv EXCEPT !.built = @ + 1, !.cachedClient = srv.built + 1,
                     !.environment = ClientEnvironment(srv),
                     !.client = srv.built + 1]

\* getDedalusClient(): the cached client, or buildClient(...), which throws
\* when options.apiKey is missing, before cachedClient is assigned
getDedalusClient(srv) ==
    IF srv.cachedClient # 0 THEN [srv EXCEPT !.client = srv.cachedClient]
    ELSE IF ~srv.apiKey THEN [srv EXCEPT !.client = 0]
    ELSE [srv EXCEPT !.built = @ + 1, !.cachedClient = srv.built + 1,
                     !.environment = ClientEnvironment(srv),
                     !.client = srv.built + 1]

\* send(data): controller.enqueue("data: <data>\n\n")
send(srv, data) == [srv EXCEPT !.events = Append(@, data)]

\* done(): the end marker, then controller.close()
done(srv) == [srv EXCEPT !.events = Append(@, "[DONE]"), !.pc = "closed"]

\* stopHeartbeat(): clearInterval(heartbeat)
stopHeartbeat(srv) == [srv EXCEPT !.heartbeat = FALSE]

\* the events e of a response body that are of the given kind
EventsOf(events, kind) == {i \in 1..Len(events) : events[i] = kind}

\* process.env.DEDALUS_API_KEY is set or unset
SetCredential ==
    /\ server' = [server EXCEPT !.apiKey = ~@]
    /\ UNCHANGED <<compVars, gen>>

\* POST up to the first await of start(): the client is obtained; the outer
\* catch answers 500 with the error payload as the whole body; otherwise the
\* stream is created, the heartbeat set and runner.run(stream: true) awaited
PostStart ==
    /\ server.pc \in {"idle", "closed"}
    /\ LET got == getDedalusClient(server)
       IN  server' =
             IF got.client = 0
             THEN [got EXCEPT !.pc = "closed", !.status = 500,
                              !.heartbeat = FALSE, !.events = <<"error">>]
             ELSE [got EXCEPT !.pc = "run", !.status = 200,
                              !.heartbeat = TRUE, !.events = <<>>]
    /\ UNCHANGED <<compVars, gen>>

\* the interval's callback: send(JSON.stringify({ ping: Date.now() }))
Heartbeat ==
    /\ server.heartbeat
    /\ Cardinality(EventsOf(server.events, "ping")) < MaxPings
    /\ server' = send(server, "ping")
    /\ UNCHANGED <<compVars, gen>>

\* runner.run(stream: true) resolved with an async iterable
RunStreams ==
    /\ server.pc = "run"
    /\ server' = [server EXCEPT !.pc = "iterate"]
    /\ UNCHANGED <<compVars, gen>>

\* for await: one chunk, send(json)
RunChunk ==
    /\ server.pc = "iterate"
    /\ Cardinality(EventsOf(server.events, "chunk")) < MaxChunks
    /\ server' = send(server, "chunk")
    /\ UNCHANGED <<compVars, gen>>

\* the iteration ends: done(); stopHeartbeat(); return (and finally)
RunEnds ==
    /\ server.pc = "iterate"
    /\ server' = stopHeartbeat(done(server))
    /\ UNCHANGED <<compVars, gen>>

\* runner.run(stream: true) resolved with something else: the second run,
\* stream: false, is awaited
RunNotIterable ==
    /\ server.pc = "run"
    /\ server' = [server EXCEPT !.pc = "single"]
    /\ UNCHANGED <<compVars, gen>>

\* the second run resolved: send(JSON.stringify(single)); done(); finally
RunSingle ==
    /\ server.pc = "single"
    /\ server' = stopHeartbeat(done(send(server, "single")))
    /\ UNCHANGED <<compVars, gen>>

\* a run or the iteration threw: catch sends the error payload, done(); finally
RunThrows ==
    /\ server.pc \in {"run", "iterate", "single"}
    /\ server' = stopHeartbeat(done(send(server, "error")))
    /\ UNCHANGED <<compVars, gen>>

(* ----------------------- the waypoint generator ------------------------ *)
\* A 32-bit word, as its two 16-bit halves.
Word(hi, lo) == [hi |-> hi, lo |-> lo]

RECURSIVE Xor16(_, _, _)
Xor16(a, b, bits) ==
    IF bits = 0 THEN 0
    ELSE ((a + b) % 2) + 2 * Xor16(a \div 2, b \div 2, bits - 1)

RECURSIVE Or16(_, _, _)
Or16(a, b, bits) ==
    IF bits = 0 THEN 0
    ELSE (IF a % 2 = 1 \/ b % 2 = 1 THEN 1 ELSE 0)
         + 2 * Or16(a \div 2, b \div 2, bits - 1)

\* a ^ b
Xor32(a, b) == Word(Xor16(a.hi, b.hi, 16), Xor16(a.lo, b.lo, 16))

\* a | n, for a small n
Or32(a, n) == Word(a.hi, Or16(a.lo, n, 16))

\* (a + b) | 0
Add32(a, b) ==
    LET lo == a.lo + b.lo
    IN  Word((a.hi + b.hi + (lo \div 65536)) % 65536, lo % 65536)

\* a >>> k, 0 < k < 16
Shr32(a, k) ==
    Word(a.hi \div (2^k), (a.lo \div (2^k)) + (a.hi % (2^k)) * (2^(16 - k)))

\* Math.imul(a, b): the low 32 bits of the product, byte by byte
Imul32(a, b) ==
    LET a0 == a.lo % 256   a1 == a.lo \div 256
        a2 == a.hi % 256   a3 == a.hi \div 256
        b0 == b.lo % 256   b1 == b.lo \div 256
        b2 == b.hi % 256   b3 == b.hi \div 256
        c0 == a0 * b0
        c1 == a0 * b1 + a1 * b0 + (c0 \div 256)
        c2 == a0 * b2 + a1 * b1 + a2 * b0 + (c1 \div 256)
        c3 == a0 * b3 + a1 * b2 + a2 * b1 + a3 * b0 + (c2 \div 256)
    IN  Word((c2 % 256) + 256 * (c3 % 256), (c0 % 256) + 256 * (c1 % 256))

\* mulberry32(20241214): 20241214 = 308 * 65536 + 56126
Seed == Word(308, 56126)

\* 0x6d2b79f5
Increment == Word(27947, 31221)

\* One call of the closure mulberry32 returns: the new state and the 32 bits
\* of the result (the result is out / 4294967296).
Rand(state) ==
    CHOOSE r \in
        { [state |-> s1,
           out |-> CHOOSE o \in
               { Xor32(t2, Shr32(t2, 14)) :
                   t2 \in { Xor32(t1, Add32(t1, Imul32(Xor32(t1, Shr32(t1, 7)),
                                                        Or32(t1, 61)))) :
                       t1 \in {Imul32(Xor32(s1, Shr32(s1, 15)), Or32(s1, 1))} } } :
               TRUE] :
          s1 \in {Add32(state, Increment)} } : TRUE

\* 3 + rand() * 94, in units of 1/65536 (rounded down)
Coordinate(out) == 3 * CoordUnit + 94 * out.hi + ((94 * out.lo) \div 65536)

\* isLand: the alpha of the mask's pixel under the point is above 10;
\* mask.data holds the alpha of each pixel, row by row
isLand(mask, latitude, longitude) ==
    IF mask = NoMask THEN TRUE
    ELSE LET pxX == Max(0, Min(mask.width - 1,
                               RoundDiv(longitude * mask.width, 100 * CoordUnit)))
             pxY == Max(0, Min(mask.height - 1,
                               RoundDiv(latitude * mask.height, 100 * CoordUnit)))
         IN  mask.data[pxY * mask.width + pxX + 1] > AlphaThreshold

\* count * 80, and one more
maxAttemptsAndOne(count) == count * AttemptsPerHouse + 1

maxAttempts(count) == count * AttemptsPerHouse

\* the waypoint pushed: id house-n, label House n, n = houses.length + 1
NewHouse(hs, latitude, longitude) ==
    [id |-> Len(hs) + 1, label |-> Len(hs) + 1,
     latitude |-> latitude, longitude |-> longitude, delivered |-> FALSE]

\* no call
GenIdle ==
    [pc |-> "idle", count |-> 0, mask |-> NoMask, state |-> Seed, houses |-> <<>>,
     attempts |-> 0, checked |-> 0, run |-> 0, first |-> <<>>]

\* entry to generateHouses with a generator kept from the call before
GenEntryShared(count, mask, before) ==
    [pc |-> "loop", count |-> count, mask |-> mask, state |-> before.state,
     houses |-> <<>>, attempts |-> 0, checked |-> 0,
     run |-> before.run + 1, first |-> before.houses]

\* Entry to generateHouses(count, mask): rand = mulberry32(20241214), houses = [],
\* attempts = 0.  `before` is the call before it (run counts the calls, first
\* keeps the result of the call before; checked counts the waypoints the first
\* loop pushed).
GenEntry(count, mask, before) ==
    [pc |-> "loop", count |-> count, mask |-> mask, state |-> Seed,
     houses |-> <<>>, attempts |-> 0, checked |-> 0,
     run |-> before.run + 1, first |-> before.houses]

\* one iteration of while (houses.length < count && attempts < maxAttempts)
GenAttempt ==
    /\ gen.pc = "loop"
    /\ Len(gen.houses) < gen.count /\ gen.attempts < maxAttempts(gen.count)
    /\ \E r1 \in {Rand(gen.state)} : \E r2 \in {Rand(r1.state)} :
        LET latitude == Coordinate(r1.out)
            longitude == Coordinate(r2.out)
        IN  gen' = IF isLand(gen.mask, latitude, longitude)
                   THEN [gen EXCEPT !.state = r2.state,
                                    !.attempts = @ + 1,
                                    !.checked = @ + 1,
                                    !.houses = Append(@, NewHouse(@, latitude, longitude))]
                   ELSE [gen EXCEPT !.state = r2.state, !.attempts = @ + 1]
    /\ UNCHANGED <<compVars, server>>

\* the first loop's condition fails
GenLoopExit ==
    /\ gen.pc = "loop"
    /\ ~(Len(gen.houses) < gen.count /\ gen.attempts < maxAttempts(gen.count))
    /\ gen' = [gen EXCEPT !.pc = "fallback"]
    /\ UNCHANGED <<compVars, server>>

\* the fallback loop left out
GenFillNone ==
    /\ gen.pc = "fallback"
    /\ Len(gen.houses) < gen.count
    /\ gen' = [gen EXCEPT !.pc = "done"]
    /\ UNCHANGED <<compVars, server>>

\* one iteration of the fallback loop: while (houses.length < count)
GenFill ==
    /\ gen.pc = "fallback"
    /\ Len(gen.houses) < gen.count
    /\ \E r1 \in {Rand(gen.state)} : \E r2 \in {Rand(r1.state)} :
        gen' = [gen EXCEPT !.state = r2.state,
                           !.houses = Append(@, NewHouse(@, Coordinate(r1.out),
                                                         Coordinate(r2.out)))]
    /\ UNCHANGED <<compVars, server>>

\* return houses
GenReturn ==
    /\ gen.pc = "fallback"
    /\ Len(gen.houses) >= gen.count
    /\ gen' = [gen EXCEPT !.pc = "done"]
    /\ UNCHANGED <<compVars, server>>

\* generateHouses is called again with the same arguments
GenAgain ==
    /\ gen.pc = "done"
    /\ gen.run = 1
    /\ gen' = GenEntry(gen.count, gen.mask, gen)
    /\ UNCHANGED <<compVars, server>>

(* --------------------------- motion: step ------------------------------ *)
\* requestAnimationFrame(step): one more callback is pending
requestAnimationFrame(pending) == pending + 1

\* a cleanup that cancels nothing
cancelNoFrame(pending) == pending

\* cancelAnimationFrame(frame): the callback requested last, if still pending,
\* is dropped
cancelAnimationFrame(pending) == IF pending > 0 THEN pending - 1 ELSE pending

\* deltaSeconds = Math.min((timestamp - last) / 1000, 0.05), in milliseconds
DeltaMs(elapsed) == Min(elapsed, MaxDeltaMs)

\* timestamp - last, for the frame about to run
Elapsed == IF lastIsNow THEN FirstElapsed ELSE FrameElapsed

\* housesRef.current.find(house => house.id === targetRef.current && !house.delivered);
\* 0 when there is none
FindTarget(hs, id) ==
    IF id \in 1..Len(hs) /\ ~hs[id].delivered THEN id ELSE 0

\* distance === 0 in place of distance < arrivalRadius
ArrivedExactly(cur, target) ==
    target.longitude = cur.x /\ target.latitude = cur.y

\* distance < arrivalRadius, with distance = Math.hypot(dx, dy)
Arrived(cur, target) ==
    LET dx == target.longitude - cur.x
        dy == target.latitude - cur.y
    IN  dx * dx + dy * dy < arrivalRadius * arrivalRadius

\* nextSanta of step: one move of speed * dt along the direction to the target
NextSanta(cur, target, deltaMs) ==
    LET dx == target.longitude - cur.x
        dy == target.latitude - cur.y
        distance == Hypot(dx, dy)
        magnitude == IF distance = 0 THEN 1 ELSE distance
        deltaX == RoundDiv(dx * speedPerSecond * deltaMs * Scale, magnitude * 1000)
        deltaY == RoundDiv(dy * speedPerSecond * deltaMs * Scale, magnitude * 1000)
    IN  [x |-> clamp(cur.x + deltaX, ClampMin, ClampMax),
         y |-> clamp(cur.y + deltaY, ClampMin, ClampMax)]

\* delivered: !house.delivered in place of delivered: true
MarkToggled(prev, id) ==
    [i \in 1..Len(prev) |->
        IF prev[i].id = id THEN [prev[i] EXCEPT !.delivered = ~@] ELSE prev[i]]

\* prev.map(house => house.id === target.id ? { ...house, delivered: true } : house)
MarkDelivered(prev, id) ==
    [i \in 1..Len(prev) |->
        IF prev[i].id = id THEN [prev[i] EXCEPT !.delivered = TRUE] ELSE prev[i]]

\* step, compliance.active of the closure true: only the next frame is requested
StepSuspended ==
    /\ mounted
    /\ frame > 0
    /\ frame' = requestAnimationFrame(frame - 1)
    /\ loopActive
    /\ lastIsNow' = FALSE
    /\ UNCHANGED <<gen, server, sched, mounted, chat, stateVars, santaRef, housesRef, targetRef, complianceRef,
                   remainingRef, loopActive, shown,
                   resetTimers, validations, arrivals, logs>>

\* step with no target: pickNextTarget
StepPick ==
    /\ mounted
    /\ frame > 0
    /\ frame' = requestAnimationFrame(frame - 1)
    /\ ~loopActive
    /\ targetRef = 0
    /\ LET remaining == Undelivered(housesRef)
       IN  IF remaining = {}
           THEN /\ targetRef' = 0
                /\ targetId' = 0
                /\ logs' = logs
           ELSE \E next \in remaining :
                /\ targetRef' = housesRef[next].id
                /\ targetId' = housesRef[next].id
                /\ logs' = AppendLog(logs, LogEntry)
    /\ lastIsNow' = FALSE
    /\ UNCHANGED <<gen, server, sched, mounted, chat, houses, maskLoaded, santa, compliance, isValidating,
                   draftSections, chatMessages, chatChanged,
                   santaRef, housesRef, complianceRef, remainingRef,
                   loopActive, shown,
                   resetTimers, validations, arrivals>>

\* step whose target does not resolve to an undelivered waypoint of housesRef
StepStale ==
    /\ mounted
    /\ frame > 0
    /\ frame' = requestAnimationFrame(frame - 1)
    /\ ~loopActive
    /\ targetRef # 0
    /\ FindTarget(housesRef, targetRef) = 0
    /\ targetRef' = 0
    /\ targetId' = 0
    /\ lastIsNow' = FALSE
    /\ UNCHANGED <<gen, server, sched, mounted, chat, houses, maskLoaded, santa, compliance, isValidating,
                   draftSections, chatMessages, chatChanged,
                   santaRef, housesRef, complianceRef, remainingRef,
                   loopActive, shown,
                   resetTimers, validations, arrivals, logs>>

\* step within the arrival radius: deliver
StepArrive ==
    /\ mounted
    /\ frame > 0
    /\ frame' = requestAnimationFrame(frame - 1)
    /\ ~loopActive
    /\ targetRef # 0
    /\ LET t == FindTarget(housesRef, targetRef)
       IN  /\ t # 0
           /\ Arrived(santaRef, housesRef[t])
           /\ houses' = MarkDelivered(houses, housesRef[t].id)
           /\ arrivals' = [arrivals EXCEPT ![t] = Min(@ + 1, 2)]
    /\ targetRef' = 0
    /\ targetId' = 0
    /\ lastIsNow' = FALSE
    /\ UNCHANGED <<gen, server, sched, mounted, chat, maskLoaded, santa, compliance, isValidating,
                   draftSections, chatMessages, chatChanged,
                   santaRef, housesRef, complianceRef, remainingRef,
                   loopActive, shown, resetTimers, validations>>
    /\ logs' = AppendLog(logs, LogEntry)

\* step outside the arrival radius, timestamp - last being elapsed: move
StepMoveBy(elapsed) ==
    /\ mounted
    /\ frame > 0
    /\ frame' = requestAnimationFrame(frame - 1)
    /\ ~loopActive
    /\ targetRef # 0
    /\ LET t == FindTarget(housesRef, targetRef)
       IN  /\ t # 0
           /\ ~Arrived(santaRef, housesRef[t])
           /\ LET nextSanta == NextSanta(santaRef, housesRef[t], DeltaMs(elapsed))
              IN  /\ santaRef' = nextSanta
                  /\ santa' = nextSanta
    /\ lastIsNow' = FALSE
    /\ UNCHANGED <<gen, server, sched, mounted, chat, houses, maskLoaded, targetId, compliance, isValidating,
                   draftSections, chatMessages, chatChanged,
                   housesRef, targetRef, complianceRef, remainingRef,
                   loopActive, shown,
                   resetTimers, validations, arrivals, logs>>

StepMove == \E elapsed \in Elapsed : StepMoveBy(elapsed)

\* a moving step of a frame whose timestamp is later than `last`
StepMoveForward == \E elapsed \in {e \in Elapsed : e > 0} : StepMoveBy(elapsed)

step == StepSuspended \/ StepPick \/ StepStale \/ StepArrive \/ StepMove

(* -------------------------- waypoint loading --------------------------- *)
\* loadMapMask().then(...): the mask (or null) arrives, the houses are generated
MaskLoaded ==
    /\ mounted
    /\ ~maskLoaded
    /\ \E mask \in BOOLEAN : houses' = generateHouses(NumHouses, mask)
    /\ maskLoaded' = TRUE
    /\ logs' = AppendLog(logs, LogEntry)
    /\ UNCHANGED <<gen, server, frame, sched, mounted, chat, santa, targetId, compliance, isValidating, draftSections,
                   chatMessages, chatChanged, mirrorVars,
                   resetTimers, validations, arrivals>>


(* ----------------------- publication (render) -------------------------- *)
\* useChat() before any send
ChatIdle == [status |-> "ready", requests |-> 0, streamed |-> 0, sending |-> FALSE]

\* stop(): the request in flight is aborted
StoppedChat(c) == [c EXCEPT !.status = "ready", !.requests = 0, !.streamed = 0]

\* isSending = chatStatus === "streaming", as the render hands it to sendChat's
\* closure and to the modal
PublishChat(c) == chat' = [c EXCEPT !.sending = (c.status = "streaming")]

\* the effect reading the last message of the transcript, whatever its role
DraftEffectLastMessage(msgs, changed, draft) ==
    IF changed /\ Len(msgs) > 0 /\ msgs[Len(msgs)].content # <<>>
    THEN parseDraftContent(msgs[Len(msgs)].content)
    ELSE draft

\* The draft-sections effect (deps [chatMessages]): the draft is re-parsed from
\* the last assistant message when the transcript was set and holds one.
DraftEffect(msgs, changed, draft) ==
    LET assistantMessages == SelectSeq(msgs, LAMBDA m : m.role = "assistant")
    IN  IF /\ changed
           /\ Len(assistantMessages) > 0
           /\ assistantMessages[Len(assistantMessages)].content # <<>>
        THEN parseDraftContent(assistantMessages[Len(assistantMessages)].content)
        ELSE draft

\* A render of the state (c, msgs, validating, draft; the rest as it stands)
\* and the effects it triggers: the ref mirrors, the restart of the motion loop
\* when compliance.active changed, the draft-sections effect, the modal's props.
Publish(c, msgs, changed, validating, draft) ==
    /\ santaRef' = santa
    /\ housesRef' = houses
    /\ targetRef' = targetId
    /\ complianceRef' = c
    /\ remainingRef' = remainingDeliveries(houses)
    /\ loopActive' = c.active
    /\ lastIsNow' = IF c.active # loopActive THEN TRUE ELSE lastIsNow
    /\ shown' = [compliance |-> c, isValidating |-> validating, chatMessages |-> msgs]
    /\ draftSections' = DraftEffect(msgs, changed, draft)
    /\ chatChanged' = FALSE
    /\ frame' = IF c.active # loopActive
                THEN requestAnimationFrame(cancelAnimationFrame(frame))
                ELSE frame

\* React renders the pending updates and runs the effects
Flush ==
    /\ mounted
    /\ PublishChat(chat)
    /\ Publish(compliance, chatMessages, chatChanged, isValidating, draftSections)
    /\ UNCHANGED <<gen, server, sched, mounted, houses, maskLoaded, santa, targetId, compliance,
                   isValidating, chatMessages, resetTimers, validations, arrivals, logs>>

(* ------------------------- interrupt scheduler ------------------------- *)
\* The scheduler's delays (5 s, then 20 s) are far longer than a render takes:
\* when the timer fires, an event started by its previous firing has been
\* published to complianceRef.
ActivationPublished == compliance.active => complianceRef.active

\* triggerCompliance, the branch that starts an event
TriggerActivate(agency) ==
    /\ sched.timers > 0 /\ ~sched.cancelled
    /\ ActivationPublished
    /\ sched' = [sched EXCEPT !.timers = (@ - 1) + 1, !.delay = Interval]
    /\ ~complianceRef.active /\ remainingRef > 0
    /\ compliance' = [active |-> TRUE, agency |-> agency, stage |-> "alert"]
    /\ chatMessages' = <<IncidentMessage(agency)>>
    /\ chatChanged' = TRUE
    /\ draftSections' = emptyDraft
    /\ logs' = AppendLog(logs, LogEntry)
    /\ UNCHANGED <<gen, server, frame, mounted, chat,
                   houses, maskLoaded, santa, targetId, isValidating,
                   santaRef, housesRef, targetRef, complianceRef, remainingRef,
                   loopActive, lastIsNow, shown,
                   resetTimers, validations, arrivals>>

\* the branch returning before the timer is set again
TriggerSkipNoRearm ==
    /\ sched.timers > 0 /\ ~sched.cancelled
    /\ ActivationPublished
    /\ sched' = [sched EXCEPT !.timers = @ - 1]
    /\ ~(~complianceRef.active /\ remainingRef > 0)
    /\ UNCHANGED <<gen, server, frame, mounted, chat,
                   stateVars, santaRef, housesRef, targetRef, complianceRef,
                   remainingRef, loopActive, lastIsNow, shown,
                   resetTimers, validations, arrivals, logs>>

\* triggerCompliance, the branch that only re-arms the timer
TriggerSkip ==
    /\ sched.timers > 0 /\ ~sched.cancelled
    /\ ActivationPublished
    /\ sched' = [sched EXCEPT !.timers = (@ - 1) + 1, !.delay = Interval]
    /\ ~(~complianceRef.active /\ remainingRef > 0)
    /\ UNCHANGED <<gen, server, frame, mounted, chat,
                   stateVars, santaRef, housesRef, targetRef, complianceRef,
                   remainingRef, loopActive, lastIsNow, shown,
                   resetTimers, validations, arrivals, logs>>

triggerCompliance == (\E agency \in Agencies : TriggerActivate(agency)) \/ TriggerSkip

(* ------------------------- compliance session -------------------------- *)
\* buttons rendered whatever the stage
StartButtonAnyStage(c) == c.active
SubmitButtonAnyStage(c) == c.active

\* ComplianceModal: which buttons the rendered modal offers (and enabled)
StartButton(c) == c.active /\ c.stage = "alert"
\* the validate button rendered in every stage
ValidateButtonAnyStage(c, validating) == c.active /\ ~validating
ValidateButton(c, validating) == c.active /\ c.stage = "drafting" /\ ~validating
\* the drafting stage's submit button enabled
SubmitButtonWhileDrafting(c) == c.active /\ c.stage \in {"drafting", "ready"}

\* the submit button still offered once the case is submitted
SubmitButtonWhenSubmitted(c) == c.active /\ c.stage \in {"ready", "submitted"}

SubmitButton(c) ==
    LET isDrafting == c.stage = "drafting"
        isReady == c.stage = "ready"
    IN  c.active /\ ((isDrafting /\ isReady) \/ isReady)

\* the click on 'Start Drafting Compliance Case': startDrafting
ClickStartDrafting ==
    /\ mounted
    /\ StartButton(shown.compliance)
    /\ compliance' = [compliance EXCEPT !.stage = "drafting"]
    /\ logs' = AppendLog(logs, LogEntry)
    /\ PublishChat(chat)
    /\ Publish(compliance', chatMessages, chatChanged, isValidating, draftSections)
    /\ UNCHANGED <<gen, server, sched, mounted, houses, maskLoaded, santa, targetId, isValidating, chatMessages,
                   resetTimers, validations, arrivals>>

\* the click on 'Validate with Elves': validateCase up to its await
ClickValidate ==
    /\ mounted
    /\ ValidateButton(shown.compliance, shown.isValidating)
    /\ Len(chatMessages) < MaxMessages
    /\ IF shown.isValidating \/ Len(shown.chatMessages) = 0
       THEN /\ isValidating' = isValidating
            /\ validations' = validations
       ELSE /\ isValidating' = TRUE
            /\ validations' = validations + 1
    /\ PublishChat(chat)
    /\ Publish(compliance, chatMessages, chatChanged, isValidating', draftSections)
    /\ UNCHANGED <<gen, server, sched, mounted, houses, maskLoaded, santa, targetId, compliance,
                   chatMessages, resetTimers, arrivals, logs>>

\* What fetch resolves with: a Response of any status (fetch rejects only when
\* the request itself fails), here by its ok flag and its body text:
\* the route's reply, an error page, an error status with no body.
Responses ==
    { [ok |-> TRUE, text |-> "validated"],
      [ok |-> FALSE, text |-> "error"],
      [ok |-> FALSE, text |-> ""] }

\* validateCase after the await: fetch resolved with res, res.text() with its body
ValidateResponse(res) ==
    /\ mounted
    /\ validations > 0
    /\ validations' = validations - 1
    /\ chatMessages' =
            Append(chatMessages,
                   [role |-> "assistant",
                    content |-> IF res.text # "" THEN Text(res.text, 0)
                                ELSE Text("complete", 0)])
    /\ chatChanged' = TRUE
    /\ compliance' = [compliance EXCEPT !.stage = "ready"]
    /\ isValidating' = FALSE
    /\ UNCHANGED <<gen, server, frame, sched, mounted, chat, houses, maskLoaded, santa, targetId, draftSections,
                   mirrorVars, resetTimers, arrivals, logs>>

\* validateCase after the await: the response arrived
ValidateResolved == \E res \in Responses : ValidateResponse(res)

\* the catch branch without the finally clause
ValidateFailedNoFinally ==
    /\ mounted
    /\ validations > 0
    /\ validations' = validations - 1
    /\ chatMessages' = Append(chatMessages,
                            [role |-> "assistant", content |-> Text("failed", 0)])
    /\ chatChanged' = TRUE
    /\ UNCHANGED <<gen, server, frame, sched, mounted, chat, houses, maskLoaded, santa, targetId, compliance,
                   isValidating, draftSections, mirrorVars, resetTimers, arrivals, logs>>

\* validateCase after the await: the request threw
ValidateFailed ==
    /\ mounted
    /\ validations > 0
    /\ validations' = validations - 1
    /\ chatMessages' = Append(chatMessages,
                            [role |-> "assistant", content |-> Text("failed", 0)])
    /\ chatChanged' = TRUE
    /\ isValidating' = FALSE
    /\ UNCHANGED <<gen, server, frame, sched, mounted, chat, houses, maskLoaded, santa, targetId, compliance,
                   draftSections, mirrorVars, resetTimers, arrivals, logs>>

\* the click on 'Submit Compliance Case': submitCase
ClickSubmit ==
    /\ mounted
    /\ SubmitButton(shown.compliance)
    /\ compliance' = [compliance EXCEPT !.stage = "submitted"]
    /\ resetTimers' = resetTimers + 1
    /\ logs' = AppendLog(logs, LogEntry)
    /\ PublishChat(StoppedChat(chat))
    /\ Publish(compliance', chatMessages, chatChanged, isValidating, draftSections)
    /\ UNCHANGED <<gen, server, sched, mounted, houses, maskLoaded, santa, targetId, isValidating, chatMessages,
                   validations, arrivals>>

\* the reset callback without setChatMessages([])
ResetKeepsTranscript ==
    /\ mounted
    /\ resetTimers > 0
    /\ resetTimers' = resetTimers - 1
    /\ compliance' = [active |-> FALSE, agency |-> 0, stage |-> "idle"]
    /\ draftSections' = emptyDraft
    /\ UNCHANGED <<gen, server, frame, sched, mounted, chat, houses, maskLoaded, santa, targetId, isValidating,
                   chatMessages, chatChanged, mirrorVars, validations, arrivals, logs>>

\* the callback of submitCase's setTimeout(..., 1600)
ResetTimerFired ==
    /\ mounted
    /\ resetTimers > 0
    /\ resetTimers' = resetTimers - 1
    /\ compliance' = [active |-> FALSE, agency |-> 0, stage |-> "idle"]
    /\ chatMessages' = <<>>
    /\ chatChanged' = TRUE
    /\ draftSections' = emptyDraft
    /\ UNCHANGED <<gen, server, frame, sched, mounted, chat, houses, maskLoaded, santa, targetId, isValidating,
                   mirrorVars, validations, arrivals, logs>>

\* The user reaches for an action the rendered modal does not offer (no such
\* button, or a disabled one): no handler runs.
IgnoredStart == mounted /\ ~StartButton(shown.compliance) /\ UNCHANGED vars
IgnoredValidate ==
    mounted /\ ~ValidateButton(shown.compliance, shown.isValidating) /\ UNCHANGED vars
IgnoredSubmit == mounted /\ ~SubmitButton(shown.compliance) /\ UNCHANGED vars

\* the three user actions of the modal, whatever the modal shows
StartInput == ClickStartDrafting \/ IgnoredStart
ValidateInput == ClickValidate \/ IgnoredValidate
SubmitInput == ClickSubmit \/ IgnoredSubmit

(* --------------------------- drafting chat ----------------------------- *)
\* What the response of the draft endpoint holds after each of its chunks: a
\* memo in the outline the endpoint's system message asks for, in two parts.
StreamChunks ==
    << <<"PART", "SP", "I", ":", "SP", "Issue">>,
       <<"SP", "text", "LF", "PART", "SP", "I", "I", ":", "SP", "Facts">> >>

\* the assistant message's content once n chunks have arrived
RECURSIVE StreamContent(_)
StreamContent(n) == IF n = 0 THEN <<>> ELSE StreamContent(n - 1) \o StreamChunks[n]

UserMessages(msgs) == {i \in 1..Len(msgs) : msgs[i].role = "user"}

UserMessage == [role |-> "user", content |-> <<"details">>]

\* useChat's sendMessage: a request is started and the status is "streaming"
\* from the call until the response ends
sendMessage(c) == [c EXCEPT !.status = "streaming", !.requests = @ + 1, !.streamed = 0]

\* the send control offered whatever isSending is
SendAllowedWhileSending(c, sending) == c.active /\ c.stage # "alert"

\* ChatInput is rendered with the modal and disabled while isSending or in
\* stage alert; sendChat itself returns when isSending
SendAllowed(c, sending) == c.active /\ c.stage # "alert" /\ ~sending

\* The user sends a message: sendChat clears the draft and calls sendMessage,
\* which appends the user message and starts the streamed request; the click's
\* render publishes isSending and runs the draft-sections effect.
SendChat ==
    /\ mounted
    /\ SendAllowed(shown.compliance, chat.sending)
    /\ Cardinality(UserMessages(chatMessages)) < MaxSends
    /\ Len(chatMessages) < MaxMessages
    /\ chatMessages' = Append(chatMessages, UserMessage)
    /\ PublishChat(sendMessage(chat))
    /\ Publish(compliance, chatMessages', TRUE, isValidating, emptyDraft)
    /\ UNCHANGED <<gen, server, sched, mounted, houses, maskLoaded, santa, targetId,
                   compliance, isValidating, resetTimers, validations, arrivals, logs>>

\* the user reaches for the send control while it is not offered
IgnoredSend == mounted /\ ~SendAllowed(shown.compliance, chat.sending) /\ UNCHANGED vars

\* A chunk of the response arrives: the assistant message being streamed is
\* appended to the transcript, or grows when it is still the last message.
ChatChunk ==
    /\ mounted
    /\ chat.requests > 0
    /\ chat.streamed < Len(StreamChunks)
    /\ LET n == Len(chatMessages)
           growing == /\ chat.streamed > 0 /\ n > 0
                      /\ chatMessages[n] =
                            [role |-> "assistant", content |-> StreamContent(chat.streamed)]
           message == [role |-> "assistant", content |-> StreamContent(chat.streamed + 1)]
       IN  chatMessages' = IF growing THEN [chatMessages EXCEPT ![n] = message]
                           ELSE Append(chatMessages, message)
    /\ chatChanged' = TRUE
    /\ chat' = [chat EXCEPT !.streamed = @ + 1]
    /\ UNCHANGED <<gen, server, frame, sched, mounted, houses, maskLoaded, santa, targetId,
                   compliance, isValidating, draftSections, mirrorVars,
                   resetTimers, validations, arrivals, logs>>

\* the response ends (end marker, error payload or closed body): status ready
ChatDone ==
    /\ mounted
    /\ chat.requests > 0
    /\ chat' = [chat EXCEPT !.status = "ready", !.requests = @ - 1, !.streamed = 0]
    /\ UNCHANGED <<gen, server, frame, sched, mounted, mainVars>>

(* ------------------------------ teardown ------------------------------- *)
\* the cleanups left out: the scheduler's timer stays set
TeardownNoClear ==
    /\ mounted
    /\ mounted' = FALSE
    /\ frame' = cancelAnimationFrame(frame)
    /\ UNCHANGED <<gen, server, sched, chat, mainVars>>

\* The component unmounts and React runs the effects' cleanups: the mask
\* effect's and the scheduler's `cancelled = true`, clearTimeout(timer),
\* cancelAnimationFrame(frame).  Nothing is rendered from here on.
Teardown ==
    /\ mounted
    /\ mounted' = FALSE
    /\ sched' = [sched EXCEPT !.cancelled = TRUE,
                              !.timers = IF @ > 0 THEN @ - 1 ELSE @]
    /\ frame' = cancelAnimationFrame(frame)
    /\ UNCHANGED <<gen, server, chat, mainVars>>

\* After the teardown the validation request settles: validateCase's setState
\* calls reach an unmounted component, which ignores them.
ValidateDropped ==
    /\ ~mounted
    /\ validations > 0
    /\ validations' = validations - 1
    /\ UNCHANGED <<gen, server, frame, sched, mounted, chat, stateVars, mirrorVars,
                   resetTimers, arrivals, logs>>

\* After the teardown submitCase's timeout fires (it is never cleared): its
\* setState calls reach an unmounted component.
ResetDropped ==
    /\ ~mounted
    /\ resetTimers > 0
    /\ resetTimers' = resetTimers - 1
    /\ UNCHANGED <<gen, server, frame, sched, mounted, chat, stateVars, mirrorVars,
                   validations, arrivals, logs>>

(* ---------------------------- specification ---------------------------- *)
MainInit ==
    /\ houses = <<>>
    /\ maskLoaded = FALSE
    /\ santa = [x |-> 480, y |-> 300]
    /\ targetId = 0
    /\ compliance = IdleCompliance
    /\ isValidating = FALSE
    /\ draftSections = emptyDraft
    /\ chatMessages = <<>>
    /\ chatChanged = FALSE
    /\ santaRef = [x |-> 480, y |-> 300]
    /\ housesRef = <<>>
    /\ targetRef = 0
    /\ complianceRef = IdleCompliance
    /\ remainingRef = 0
    /\ loopActive = FALSE
    /\ lastIsNow = TRUE
    /\ shown = [compliance |-> IdleCompliance, isValidating |-> FALSE,
                chatMessages |-> <<>>]
    /\ resetTimers = 0
    /\ validations = 0
    /\ arrivals = [i \in 1..NumHouses |-> 0]
    /\ logs = <<LogEntry>>
    /\ sched = [timers |-> 1, delay |-> FirstDelay, cancelled |-> FALSE]
    /\ mounted = TRUE
    /\ frame = 1
    /\ chat = ChatIdle

Init == MainInit /\ gen = GenIdle /\ server = ServerIdle

Next ==
    \/ MaskLoaded
    \/ StepSuspended
    \/ StepPick
    \/ StepStale
    \/ StepArrive
    \/ StepMove
    \/ Flush
    \/ \E agency \in Agencies : TriggerActivate(agency)
    \/ TriggerSkip
    \/ ClickStartDrafting
    \/ ClickValidate
    \/ ValidateResolved
    \/ ValidateFailed
    \/ ClickSubmit
    \/ ResetTimerFired
    \/ IgnoredStart
    \/ IgnoredValidate
    \/ IgnoredSubmit

Spec == Init /\ [][Next]_vars


\* the reset timer of a submitted case is a browser timeout: once set it fires
FairSpec == Spec /\ WF_vars(ResetTimerFired)

\* The run the end-to-end scenario is about: every frame's timestamp is later
\* than the previous one's (and than the effect's performance.now()).
LiveNext ==
    \/ MaskLoaded
    \/ StepSuspended
    \/ StepPick
    \/ StepStale
    \/ StepArrive
    \/ StepMoveForward
    \/ Flush
    \/ \E agency \in Agencies : TriggerActivate(agency)
    \/ TriggerSkip
    \/ ClickStartDrafting
    \/ ClickValidate
    \/ ValidateResolved
    \/ ValidateFailed
    \/ ClickSubmit
    \/ ResetTimerFired
    \/ IgnoredStart
    \/ IgnoredValidate
    \/ IgnoredSubmit

\* The mask promise settles, React renders pending updates, a set timeout
\* fires, and animation frames keep coming: whenever the loop is not suspended
\* for good, a frame runs step (frames are milliseconds apart, compliance
\* events seconds).
LiveSpec ==
    /\ Init
    /\ [][LiveNext]_vars
    /\ WF_vars(MaskLoaded)
    /\ WF_vars(Flush)
    /\ WF_vars(ResetTimerFired)
    /\ SF_vars(StepPick \/ StepStale \/ StepArrive \/ StepMoveForward)

(* -------------------- the component and its drafting chat -------------- *)
\* The frames of a running motion loop touch neither the transcript nor the
\* chat and are left to Spec; the frames of a suspended loop stay.
ChatNext ==
    \/ MaskLoaded
    \/ StepSuspended
    \/ Flush
    \/ \E agency \in Agencies : TriggerActivate(agency)
    \/ TriggerSkip
    \/ ClickStartDrafting
    \/ ClickValidate
    \/ ValidateResolved
    \/ ValidateFailed
    \/ ClickSubmit
    \/ ResetTimerFired
    \/ IgnoredStart
    \/ IgnoredValidate
    \/ IgnoredSubmit
    \/ SendChat
    \/ IgnoredSend
    \/ ChatChunk
    \/ ChatDone

ChatSpec == Init /\ [][ChatNext]_vars

(* -------------------- the component and its teardown ------------------- *)
TeardownNext ==
    \/ Next
    \/ Teardown
    \/ ValidateDropped
    \/ ResetDropped

TeardownSpec == Init /\ [][TeardownNext]_vars

(* ----------------------- the event list by source --------------------- *)
\* The setLogs calls of the three sources, each entry tagged with its source,
\* in any order: pickNextTarget and the arrival (motion loop),
\* triggerCompliance (scheduler), startDrafting and submitCase (session).
\* Each passes the updater current => [...current.slice(-12), entry].
LogSources == {"motion", "scheduler", "session"}

\* the entries of l that come from the scheduler or the session
LogEvents(l) == {i \in 1..Len(l) : l[i] \in {"scheduler", "session"}}

LogAppend(source) ==
    /\ source = "motion" \/ Cardinality(LogEvents(logs)) < MaxLogEvents
    /\ logs' = AppendLog(logs, source)
    /\ UNCHANGED <<gen, server, frame, sched, mounted, chat, stateVars, mirrorVars,
                   resetTimers, validations, arrivals>>

LogMotion == LogAppend("motion")
LogScheduler == LogAppend("scheduler")
LogSession == LogAppend("session")

LogNext ==
    \/ LogMotion
    \/ LogScheduler
    \/ LogSession

LogSpec == Init /\ [][LogNext]_vars

(* -------------------- the draft endpoint's process --------------------- *)
\* the process starts with or without the credential in its environment
ServerInit ==
    /\ MainInit
    /\ gen = GenIdle
    /\ server \in {[ServerIdle EXCEPT !.apiKey = key, !.env = env] :
                        key \in BOOLEAN, env \in EnvValues}

ServerNext ==
    \/ SetCredential
    \/ PostStart
    \/ Heartbeat
    \/ RunStreams
    \/ RunChunk
    \/ RunEnds
    \/ RunNotIterable
    \/ RunSingle
    \/ RunThrows

ServerSpec == ServerInit /\ [][ServerNext]_vars

(* ------------------- the generator, call by call ----------------------- *)
\* generateHouses called with any count up to MaxCount and any mask
GenInit ==
    /\ MainInit
    /\ gen \in {GenEntry(count, mask, GenIdle) : count \in 0..MaxCount, mask \in Masks}
    /\ server = ServerIdle

GenNext ==
    \/ GenAttempt
    \/ GenLoopExit
    \/ GenFill
    \/ GenReturn
    \/ GenAgain

GenSpec == GenInit /\ [][GenNext]_vars

(* --------------------- the parser on streamed drafts ------------------- *)
\* The drafts the parser is run on: an optional line of prose, the sections
\* PART I .. PART V (each present or not), an optional REFERENCES block of
\* bulleted lines; lines end in LF or CR LF.  A draft is given by its parts.
Opt(bodies) == {<<>>} \cup {<<b>> : b \in bodies}

Drafts ==
    [lead : {<<>>, <<"Hello", "SP", "elves">>, <<"SP", "Hello", "SP", "elves", "SP">>},
     i : Opt({<<"Issue", "SP", "text">>, <<"see", "SP", "REFERENCE", "S", "SP", "above">>}),
     ii : Opt({<<"Facts", "SP", "text">>}),
     iii : Opt({<<"Analysis">>}),
     iv : Opt({<<"Actions">>}),
     v : Opt({<<"Annex">>}),
     refs : {<<>>,
             <<<<"Source", "SP", "A">>, <<"Source", "SP", "B">>>>,
             <<<<"7", "SP", "CFR", "SP", "7">>>>},
     break : {<<"LF">>, <<"CR", "LF">>}]

PartLine(roman, part) ==
    IF part = <<>> THEN <<>> ELSE <<<<"PART", "SP">> \o roman \o <<":", "SP">> \o part[1]>>

\* the lines of a draft
DraftLines(d) ==
    (IF d.lead = <<>> THEN <<>> ELSE <<d.lead>>)
    \o PartLine(<<"I">>, d.i)
    \o PartLine(<<"I", "I">>, d.ii)
    \o PartLine(<<"I", "I", "I">>, d.iii)
    \o PartLine(<<"I", "V">>, d.iv)
    \o PartLine(<<"V">>, d.v)
    \o (IF d.refs = <<>> THEN <<>> ELSE <<<<"REFERENCE", "S", ":">>>>)
    \o [n \in DOMAIN d.refs |-> <<"-", "SP">> \o d.refs[n]]

RECURSIVE JoinLines(_, _)
JoinLines(lines, break) ==
    IF lines = <<>> THEN <<>>
    ELSE IF Len(lines) = 1 THEN lines[1]
    ELSE lines[1] \o break \o JoinLines(Tail(lines), break)

DraftText(d) == JoinLines(DraftLines(d), d.break)

\* The session is drafting, the user has sent the details and the reply has
\* been streamed into the transcript as the last assistant message; the render
\* of that last update, and with it the draft-sections effect, is still to come.
ParserInit ==
    \E d \in Drafts :
        LET c == [active |-> TRUE, agency |-> 1, stage |-> "drafting"]
            sent == <<IncidentMessage(1),
                      [role |-> "user", content |-> <<"details">>]>>
        IN  /\ houses = generateHouses(NumHouses, TRUE)
            /\ maskLoaded = TRUE
            /\ santa = [x |-> 480, y |-> 300]
            /\ targetId = 0
            /\ compliance = c
            /\ isValidating = FALSE
            /\ draftSections = emptyDraft
            /\ chatMessages =
                   Append(sent, [role |-> "assistant", content |-> DraftText(d)])
            /\ chatChanged = TRUE
            /\ santaRef = [x |-> 480, y |-> 300]
            /\ housesRef = generateHouses(NumHouses, TRUE)
            /\ targetRef = 0
            /\ complianceRef = c
            /\ remainingRef = NumHouses
            /\ loopActive = TRUE
            /\ lastIsNow = TRUE
            /\ shown = [compliance |-> c, isValidating |-> FALSE, chatMessages |-> sent]
            /\ resetTimers = 0
            /\ validations = 0
            /\ arrivals = [i \in 1..NumHouses |-> 0]
            /\ logs = <<LogEntry, LogEntry, LogEntry, LogEntry>>
            /\ gen = GenIdle
            /\ sched = [timers |-> 1, delay |-> Interval, cancelled |-> FALSE]
            /\ mounted = TRUE
            /\ frame = 1
            /\ chat = [status |-> "streaming", requests |-> 1, streamed |-> 1,
                       sending |-> TRUE]
            /\ server = ServerIdle

ParserNext == Flush

ParserSpec == ParserInit /\ [][ParserNext]_vars

(* ------------------------------- claims -------------------------------- *)
InBounds(p) ==
    /\ p.x >= ClampMin /\ p.x <= ClampMax
    /\ p.y >= ClampMin /\ p.y <= ClampMax

\* C1: in every reachable state both coordinates of the agent position lie in
\* [1, 99].
TheoremC1 == InBounds(santa)

\* C1, where the bound did the work: the agent sits on the lower bound of the
\* plane, below every waypoint (each is at 3 or more).
WitnessC1 == santa.y = ClampMin /\ maskLoaded

\* C2: while compliance.active is true no step changes the agent position.
CounterexampleC2 == [][compliance.active => santa' = santa]_vars

\* C3: the scheduler starts an event only when none is active and at least one
\* waypoint is undelivered.
CounterexampleC3 ==
    [][(\E agency \in Agencies : TriggerActivate(agency))
        => (~compliance.active /\ remainingDeliveries(houses) > 0)]_vars

\* C4: a delivered flag that is true stays true in every later state.
TheoremC4 ==
    [][\A i \in 1..Len(houses) :
        houses[i].delivered => (i <= Len(houses') /\ houses'[i].delivered)]_vars

\* C4, where a flag could have reverted: a waypoint was marked a second time
\* and is still delivered.
WitnessC4 ==
    \E i \in 1..Len(houses) : arrivals[i] >= 2 /\ houses[i].delivered

\* C5: the arrival step is performed at most once per waypoint.
CounterexampleC5 == \A i \in 1..NumHouses : arrivals[i] <= 1

\* C6: a non-null target names a waypoint of the collection that is undelivered.
CounterexampleC6 ==
    targetId # 0 => (targetId \in 1..Len(houses) /\ ~houses[targetId].delivered)

StageChange(from, to) == compliance.stage = from /\ compliance'.stage = to

TheoremC8 ==
    [][(compliance.stage = "alert" /\ SubmitInput)
        => /\ compliance' = compliance
           /\ chatMessages' = chatMessages
           /\ resetTimers' = resetTimers]_vars

\* C8, the alert is on screen and the user's submit finds no button
WitnessC8 ==
    /\ compliance.stage = "alert"
    /\ shown.compliance = compliance
    /\ ENABLED IgnoredSubmit
    /\ ~ENABLED ClickSubmit

ResetState ==
    /\ compliance = [active |-> FALSE, agency |-> 0, stage |-> "idle"]
    /\ chatMessages = <<>>
    /\ draftSections = emptyDraft

\* C9: a submitted case leads to the state {active: false, agency: null,
\* stage: idle} with an empty transcript and an empty draft.
TheoremC9 == (compliance.stage = "submitted") ~> ResetState

\* C9, right after the reset fired: the modal still shows the submitted case
WitnessC9 == ResetState /\ shown.compliance.stage = "submitted" /\ resetTimers = 0

\* C10: in the stages alert, drafting, ready and submitted only the reset sets
\* active to false, no waypoint is delivered and the position does not change.
CounterexampleC10 ==
    [][compliance.stage \in {"alert", "drafting", "ready", "submitted"}
        => /\ compliance'.active \/ ResetTimerFired
           /\ houses' = houses
           /\ santa' = santa]_vars

\* the catch branch's entry: 'Validation failed. Please retry.'
FailureMessage == [role |-> "assistant", content |-> Text("failed", 0)]

\* C11: the stage goes from drafting to ready only by a validation call that
\* succeeded; a validation call that failed (an error response, or a request
\* that threw) appends the failure message as an assistant entry and leaves the
\* stage drafting.
CounterexampleC11 ==
    [][/\ StageChange("drafting", "ready")
            => \E res \in Responses : res.ok /\ ValidateResponse(res)
       /\ (ValidateFailed \/ \E res \in Responses : ~res.ok /\ ValidateResponse(res))
            => /\ compliance.stage = "drafting"
               /\ compliance' = compliance
               /\ chatMessages' = Append(chatMessages, FailureMessage)]_vars

\* C12: a step that activates an event sets the compliance state to
\* {active: true, agency, stage: alert} with agency in the catalog, makes the
\* transcript exactly the one seeded incident message naming that agency, and
\* appends one entry to the log (the last 12 entries are kept before it).
TheoremC12 ==
    [][(~compliance.active /\ compliance'.active)
        => /\ compliance'.agency \in Agencies
           /\ compliance' = [active |-> TRUE, agency |-> compliance'.agency,
                              stage |-> "alert"]
           /\ chatMessages' =
                <<[role |-> "assistant",
                   content |-> Text("incident", compliance'.agency)]>>
           /\ Len(logs') = Min(Len(logs), LogWindow) + 1
           /\ \A i \in 1..(Len(logs') - 1) :
                logs'[i] = logs[i + Len(logs) - (Len(logs') - 1)]]_vars

\* C12, right after an activation that drew the last agency of the catalog, in
\* a run that has delivered a waypoint: the alert is not rendered yet.
WitnessC12 ==
    /\ compliance = [active |-> TRUE, agency |-> NumAgencies, stage |-> "alert"]
    /\ shown.compliance.stage = "idle"
    /\ chatChanged
    /\ Len(chatMessages) = 1
    /\ \E i \in 1..NumHouses : arrivals[i] >= 1

\* every update is rendered and the effects of that render have run
Settled ==
    /\ ~chatChanged
    /\ shown = [compliance |-> compliance, isValidating |-> isValidating,
                chatMessages |-> chatMessages]
    /\ complianceRef = compliance

\* C13: once an activation's updates and their effects have settled, the draft
\* sections are all empty while the stage is alert.
CounterexampleC13 ==
    (compliance.stage = "alert" /\ Settled) => draftSections = emptyDraft

\* every compliance event is eventually submitted: no event stays forever in a
\* stage before submitted
EverySubmitted == []<>(compliance.stage \in {"idle", "submitted"})

AllDelivered ==
    /\ Len(houses) = NumHouses
    /\ remainingDeliveries(houses) = 0
    /\ \A i \in 1..Len(houses) : houses[i].delivered
    /\ targetId = 0
    /\ targetRef = 0

\* C14: with the waypoints loaded, frames that keep coming with positive
\* elapsed time and every compliance event eventually submitted, the run
\* reaches, and then stays in, a state where no delivery remains, every
\* waypoint is delivered and the target is null.
TheoremC14 == EverySubmitted => <>[]AllDelivered

\* C14, the run is over and idle, after more entries than the log holds
WitnessC14 ==
    /\ AllDelivered
    /\ Settled
    /\ ~compliance.active
    /\ ~loopActive
    /\ Len(logs) = LogWindow + 1

\* the content of the last message of the transcript
LastContent == chatMessages[Len(chatMessages)].content

\* the draft-sections effect has run on the transcript as it stands
DraftDerived == Len(chatMessages) > 0 /\ ~chatChanged

\* C15: for a text in which none of the labels PART I .. PART IV occurs (prose,
\* a PART V line, a REFERENCES block), the parser returns issue = the whole
\* normalised text (CR LF as LF, trimmed) and facts, analysis and actions empty.
TheoremC15 ==
    \A d \in Drafts :
        (/\ DraftDerived
         /\ LastContent = DraftText(d)
         /\ d.i = <<>> /\ d.ii = <<>> /\ d.iii = <<>> /\ d.iv = <<>>)
        => /\ draftSections.issue = Trim(JoinLines(DraftLines(d), <<"LF">>))
           /\ draftSections.facts = <<>>
           /\ draftSections.analysis = <<>>
           /\ draftSections.actions = <<>>

\* C15, parsed: prose with spaces around it, a PART V line and a REFERENCES
\* block, lines ending in CR LF
WitnessC15 ==
    /\ DraftDerived
    /\ \E d \in Drafts :
        /\ LastContent = DraftText(d)
        /\ d.i = <<>> /\ d.ii = <<>> /\ d.iii = <<>> /\ d.iv = <<>>
        /\ d.lead = <<"SP", "Hello", "SP", "elves", "SP">>
        /\ d.v # <<>> /\ d.refs # <<>>
        /\ d.break = <<"CR", "LF">>
    /\ draftSections.issue # <<>>
    /\ draftSections.references # <<>>

\* C16: for a text made of a PART I line, a PART II line and a REFERENCES block
\* of bulleted lines, the parser returns issue and facts equal to the two
\* bodies, analysis and actions empty, and references equal to the bullet
\* texts in order.
CounterexampleC16 ==
    \A d \in Drafts :
        (/\ DraftDerived
         /\ LastContent = DraftText(d)
         /\ d.lead = <<>> /\ d.i # <<>> /\ d.ii # <<>>
         /\ d.iii = <<>> /\ d.iv = <<>> /\ d.v = <<>>
         /\ d.refs # <<>>)
        => /\ draftSections.issue = d.i[1]
           /\ draftSections.facts = d.ii[1]
           /\ draftSections.analysis = <<>>
           /\ draftSections.actions = <<>>
           /\ draftSections.references = d.refs

\* a mask no point of which is land: the validity predicate is never satisfied
NoLand(mask) == mask # NoMask /\ \A i \in 1..Len(mask.data) : mask.data[i] = 0

\* C18: whatever the count and the mask (none, never satisfied, any other),
\* the sequence generateHouses returns has exactly count waypoints, numbered
\* 1..count in order in id and label, none delivered, and both coordinates
\* within [3, 97].
TheoremC18 ==
    gen.pc = "done" =>
        /\ Len(gen.houses) = gen.count
        /\ \A i \in 1..Len(gen.houses) :
            /\ gen.houses[i].id = i
            /\ gen.houses[i].label = i
            /\ ~gen.houses[i].delivered
            /\ 3 * CoordUnit <= gen.houses[i].latitude
            /\ gen.houses[i].latitude <= 97 * CoordUnit
            /\ 3 * CoordUnit <= gen.houses[i].longitude
            /\ gen.houses[i].longitude <= 97 * CoordUnit

\* C18, returned: the largest count under a mask that is never satisfied,
\* every slot filled by the fallback loop
WitnessC18 ==
    /\ gen.pc = "done"
    /\ gen.count = MaxCount
    /\ NoLand(gen.mask)
    /\ gen.checked = 0
    /\ Len(gen.houses) = MaxCount

\* C19: a second call of generateHouses with the same count and the same mask
\* returns the sequence the first call returned.
TheoremC19 ==
    (gen.pc = "done" /\ gen.run = 2) => gen.houses = gen.first

\* C19, returned twice: a mask with land and sea under which the first call
\* rejected a point, and a non-empty result
WitnessC19 ==
    /\ gen.pc = "done"
    /\ gen.run = 2
    /\ gen.count = MaxCount
    /\ gen.mask # NoMask /\ ~NoLand(gen.mask)
    /\ gen.attempts > gen.checked
    /\ gen.first # <<>>
    /\ gen.houses = gen.first

\* the steps a call of generateHouses has left at most
GenMeasure(g) ==
    (g.count * AttemptsPerHouse - g.attempts) + (g.count - Len(g.houses))
    + (CASE g.pc = "loop" -> 2 [] g.pc = "fallback" -> 1 [] OTHER -> 0)

\* C20: the predicate is evaluated at most count * 80 times; every waypoint the
\* first loop accepted satisfies it; a waypoint is pushed unvalidated only when
\* the 80 * count evaluations are used up; and every step of a call brings it
\* closer to its return, so the call terminates.
TheoremC20 ==
    /\ [](/\ gen.attempts <= gen.count * AttemptsPerHouse
          /\ gen.checked <= Len(gen.houses)
          /\ \A i \in 1..gen.checked :
                isLand(gen.mask, gen.houses[i].latitude, gen.houses[i].longitude)
          /\ Len(gen.houses) > gen.checked
                => gen.attempts = gen.count * AttemptsPerHouse)
    /\ [][(gen.pc \in {"loop", "fallback"})
            => /\ GenMeasure(gen') < GenMeasure(gen)
               /\ GenMeasure(gen') >= 0]_vars

\* C20, budget used up: a mask that is never satisfied, count * 80 evaluations
\* made, every waypoint pushed by the fallback loop, the call returned
WitnessC20 ==
    /\ gen.pc = "done"
    /\ gen.count > 0
    /\ NoLand(gen.mask)
    /\ gen.attempts = gen.count * AttemptsPerHouse
    /\ gen.checked = 0
    /\ Len(gen.houses) = gen.count

\* C23: in every state whose stage is submitted the transcript is empty.
CounterexampleC23 == compliance.stage = "submitted" => chatMessages = <<>>

\* C26: while compliance.active is true a tick changes neither the target, nor
\* a waypoint's delivered flag, nor the event log.
CounterexampleC26 ==
    [][(compliance.active /\ step)
        => /\ targetId' = targetId /\ targetRef' = targetRef
           /\ houses' = houses
           /\ logs' = logs]_vars

\* the waypoint id names is in the collection hs and undelivered
Resolves(hs, id) == id \in 1..Len(hs) /\ ~hs[id].delivered

\* C28: a tick that is not suspended and whose target does not resolve to an
\* undelivered waypoint of the collection clears the target and leaves the
\* position and every waypoint as they are; a tick that is not suspended and
\* finds no target performs target selection.
CounterexampleC28 ==
    [][/\ (step /\ ~loopActive /\ targetId # 0 /\ ~Resolves(houses, targetId))
            => /\ targetId' = 0 /\ targetRef' = 0
               /\ santa' = santa
               /\ houses' = houses
       /\ (step /\ ~loopActive /\ targetRef = 0) => StepPick]_vars

\* C24: from the teardown on no scheduler timer is pending and the compliance
\* state, the transcript, the draft and the event log stay as they are.
TheoremC24 ==
    /\ [](~mounted => (sched.timers = 0 /\ sched.cancelled))
    /\ [][~mounted => /\ compliance' = compliance
                      /\ chatMessages' = chatMessages
                      /\ draftSections' = draftSections
                      /\ logs' = logs]_vars

\* C24, torn down with the 20 s timer pending, at a moment the scheduler
\* would have started an event
WitnessC24 ==
    /\ ~mounted
    /\ sched.timers = 0 /\ sched.delay = Interval
    /\ ~complianceRef.active /\ remainingRef > 0

\* C27: until the teardown exactly one scheduler timer is pending, the first
\* set for 5 s and every later one for 20 s; a firing that finds an event
\* active or no waypoint undelivered changes neither the compliance state, the
\* transcript, the draft nor the event log.
TheoremC27 ==
    /\ [](mounted => sched.timers = 1)
    /\ [](sched.delay \in {FirstDelay, Interval})
    /\ [][/\ (sched'.timers = 1 /\ sched'.delay = Interval) \/ ~triggerCompliance
          /\ sched.delay = Interval => sched'.delay = Interval
          /\ ((complianceRef.active \/ remainingRef = 0) /\ triggerCompliance)
                => /\ compliance' = compliance
                   /\ chatMessages' = chatMessages
                   /\ draftSections' = draftSections
                   /\ logs' = logs]_vars

\* C27, re-armed: a firing has set the 20 s timer, the event it started is
\* published and being drafted, and the next firing will find it active
WitnessC27 ==
    /\ mounted
    /\ sched.timers = 1 /\ sched.delay = Interval
    /\ complianceRef.active /\ compliance.stage = "drafting"

\* C29: the event log never holds more than 13 entries, and every append
\* yields the last 12 entries of the log before it, in their order, followed
\* by the new entry, whichever source appends.
TheoremC29 ==
    /\ [](Len(logs) <= LogWindow + 1)
    /\ [][LET kept == Min(Len(logs), LogWindow)
          IN  /\ Len(logs') = kept + 1
              /\ \A i \in 1..kept : logs'[i] = logs[Len(logs) - kept + i]
              /\ LogMotion => logs'[kept + 1] = "motion"
              /\ LogScheduler => logs'[kept + 1] = "scheduler"
              /\ LogSession => logs'[kept + 1] = "session"]_vars

\* C29, window full and shifted: the initial entry has been dropped, entries
\* of all three sources are in the window, the newest from the session
WitnessC29 ==
    /\ Len(logs) = LogWindow + 1
    /\ \A i \in 1..Len(logs) : logs[i] # LogEntry
    /\ \A source \in LogSources : \E i \in 1..Len(logs) : logs[i] = source
    /\ logs[1] = "scheduler"
    /\ logs[Len(logs)] = "session"

\* C21: the body of every response of the draft endpoint ends with the end
\* marker, holds it exactly once, and nothing is written after it.
CounterexampleC21 ==
    /\ server.pc = "closed" =>
            /\ server.events # <<>>
            /\ server.events[Len(server.events)] = "[DONE]"
    /\ Cardinality(EventsOf(server.events, "[DONE]")) <= 1
    /\ \A i \in EventsOf(server.events, "[DONE]") : i = Len(server.events)

\* C25: at most one client is ever constructed; once one is cached every call
\* returns it; a call made without the credential and without a cached client
\* fails and leaves the cache empty; a call made with the credential succeeds.
TheoremC25 ==
    /\ [](server.built <= 1)
    /\ [][PostStart =>
            /\ server.cachedClient # 0
                => /\ server'.client = server.cachedClient
                   /\ server'.cachedClient = server.cachedClient
                   /\ server'.built = server.built
            /\ (server.cachedClient = 0 /\ ~server.apiKey)
                => /\ server'.client = 0
                   /\ server'.cachedClient = 0
                   /\ server'.built = server.built
            /\ server.apiKey => (server'.client # 0 /\ server'.client = server'.cachedClient)]_vars

\* C25, after a failure and a success: the process started without the
\* credential, a request failed with the error payload as its whole body,
\* the credential was set, and a later request obtained the one client, which
\* is now served from the cache with the credential unset again
WitnessC25 ==
    /\ server.built = 1 /\ server.cachedClient = 1 /\ server.client = 1
    /\ ~server.apiKey
    /\ server.pc = "run"

AssistantMessages(msgs) == {i \in 1..Len(msgs) : msgs[i].role = "assistant"}

\* the position of the most recent of them
LastAssistant(msgs) ==
    CHOOSE i \in AssistantMessages(msgs) : \A j \in AssistantMessages(msgs) : j <= i

CounterexampleC31 ==
    (server.pc = "closed" /\ server.status = 200
        /\ EventsOf(server.events, "error") # {})
    => /\ Cardinality(EventsOf(server.events, "error")) = 1
       /\ EventsOf(server.events, "chunk") = {}
       /\ EventsOf(server.events, "single") = {}
       /\ Len(server.events) >= 2
       /\ server.events[Len(server.events)] = "[DONE]"
       /\ server.events[Len(server.events) - 1] = "error"

\* the longest move of one tick: speedPerSecond * 0.05 s, in fixed-point units
MaxStep == (speedPerSecond * MaxDeltaMs * Scale) \div 1000

\* C32: no tick of the motion loop moves the agent by more than 22 * 0.05 = 1.1
\* plane units, which is less than the arrival radius; and a tick that moves
\* the agent leaves it on the same side of its target.
CounterexampleC32 ==
    [][step =>
        LET dx == santa'.x - santa.x
            dy == santa'.y - santa.y
            t == FindTarget(housesRef, targetRef)
        IN  /\ dx * dx + dy * dy <= MaxStep * MaxStep
            /\ MaxStep < arrivalRadius
            /\ (santa' # santa /\ t # 0) =>
                 (housesRef[t].longitude - santa.x) * (housesRef[t].longitude - santa'.x)
                 + (housesRef[t].latitude - santa.y) * (housesRef[t].latitude - santa'.y) > 0]_vars

\* C33: the compliance record is coherent in every reachable state: active
\* exactly when the stage is alert, drafting, ready or submitted, and an
\* agency set exactly when active.
TheoremC33 ==
    /\ compliance.active <=> compliance.stage \in {"alert", "drafting", "ready", "submitted"}
    /\ compliance.active <=> compliance.stage # "idle"
    /\ compliance.agency # 0 <=> compliance.active

\* C33, where a handler rewrote the record from the previous one: after a
\* delivery, a validation reply has moved an event to ready, with its agency
WitnessC33 ==
    /\ compliance.stage = "ready"
    /\ compliance.active
    /\ compliance.agency \in Agencies
    /\ \E i \in 1..Len(houses) : arrivals[i] > 0
    /\ Len(chatMessages) = 2

\* C34: a reset tears down only the event that was submitted: at most one
\* reset timer is pending, one is pending only while the stage is submitted,
\* the reset callback runs only in stage submitted, and a submit action on an
\* event already submitted sets no timer.
TheoremC34 ==
    /\ [](resetTimers <= 1)
    /\ [](resetTimers > 0 => compliance.stage = "submitted")
    /\ [][ResetTimerFired => compliance.stage = "submitted"]_vars
    /\ [][(SubmitInput /\ compliance.stage = "submitted") => resetTimers' = resetTimers]_vars

\* the reset timer of a submitted event is pending and a further submit action
\* finds no button
WitnessC34 ==
    /\ resetTimers = 1
    /\ compliance.stage = "submitted"
    /\ shown.compliance.stage = "submitted"
    /\ ENABLED IgnoredSubmit
    /\ ~ENABLED ClickSubmit

\* C35: at most one validation request is outstanding, and isValidating is
\* true while it is; a validate action taken while isValidating is true or the
\* transcript is empty starts no request and changes nothing; when the request
\* completes, with a response or by throwing, isValidating is false again; and
\* in stage drafting with nothing in flight, once rendered, a validation can
\* be started.
TheoremC35 ==
    /\ [](validations <= 1)
    /\ [](validations > 0 => isValidating)
    /\ [][(ValidateInput /\ (isValidating \/ chatMessages = <<>>))
            => /\ validations' = validations
               /\ isValidating' = isValidating
               /\ chatMessages' = chatMessages
               /\ compliance' = compliance]_vars
    /\ [][(ValidateResolved \/ ValidateFailed)
            => (~isValidating' /\ validations' = 0)]_vars
    /\ [](/\ compliance.stage = "drafting" /\ validations = 0
          /\ Settled /\ Len(chatMessages) < MaxMessages
          => ENABLED (ClickValidate /\ validations' = 1))

\* C35, the retry: the first request threw, the failure message is in the
\* transcript, and a second request is in flight
WitnessC35 ==
    /\ validations = 1
    /\ isValidating
    /\ compliance.stage = "drafting"
    /\ Len(chatMessages) = 2
    /\ chatMessages[2] = FailureMessage

BodyOf(part) == IF part = <<>> THEN <<>> ELSE part[1]

\* C37: for a text holding some but not all of the lines PART I .. PART IV,
\* the parser returns, for each of the four fields, the body of the field's own
\* line when the text has it and the empty text when it has not.
CounterexampleC37 ==
    \A d \in Drafts :
        (/\ DraftDerived
         /\ LastContent = DraftText(d)
         /\ \E part \in {d.i, d.ii, d.iii, d.iv} : part # <<>>
         /\ \E part \in {d.i, d.ii, d.iii, d.iv} : part = <<>>)
        => /\ draftSections.issue = BodyOf(d.i)
           /\ draftSections.facts = BodyOf(d.ii)
           /\ draftSections.analysis = BodyOf(d.iii)
           /\ draftSections.actions = BodyOf(d.iv)

\* C38: at most one animation-frame callback of the motion loop is pending at
\* any time; a tick runs the one pending callback and leaves one pending; a
\* restart of the loop (compliance.active of the running closure changes)
\* leaves one pending; after the teardown none is.
TheoremC38 ==
    /\ [](frame <= 1)
    /\ [](mounted => frame = 1)
    /\ [][step => (frame = 1 /\ frame' = 1)]_vars
    /\ [][loopActive' # loopActive => frame' = 1]_vars
    /\ [](~mounted => frame = 0)

\* the loop had picked a target, was suspended for an event and has just been
\* restarted by the render of that event's reset: no frame has run since, and
\* one callback is pending
WitnessC38 ==
    /\ mounted
    /\ frame = 1
    /\ lastIsNow
    /\ ~loopActive
    /\ targetRef # 0
    /\ compliance = IdleCompliance

====
